---- MODULE Spec2Model ----
(***************************************************************************)
(* Model of the movies API of arcnetic_backend (src/movies):                *)
(*   utils.py       parse_filter_query, apply_filters, apply_sort,          *)
(*                  aggregate_movies, TMDB_GENRE_MAP                        *)
(*   services.py    fetch_movies_from_tmdb behind functools.lru_cache       *)
(*   views.py       MoviesListView.get, MoviesSummaryView.get               *)
(*   serializers.py MovieSerializer.get_genres                              *)
(*                                                                         *)
(* Python values are represented as follows.                               *)
(*   str            a TLA+ string; characters are read with SubSeq         *)
(*   None / value   <<>> / <<v>>  (an optional value)                        *)
(*   float rating   an integer number of tenths (7.0 is 70)                 *)
(*   list           a sequence                                              *)
(*   dict           a function whose DOMAIN is the set of keys              *)
(***************************************************************************)
EXTENDS Integers, Sequences, FiniteSets, TLC

(***************************************************************************)
(* Optional values.                                                        *)
(***************************************************************************)
None == <<>>

Some(v) == <<v>>

Val(o) == o[1]

\* Python truthiness of an optional str: neither None nor "".
TruthyStr(o) == o # None /\ Val(o) # ""

\* Python `x or 0` for an optional number (None and 0.0 both give 0).
OrZero(o) == IF o = None THEN 0 ELSE Val(o)

\* Python `x or ""` for an optional str.
OrEmpty(o) == IF o = None THEN "" ELSE Val(o)

(***************************************************************************)
(* str operations used by the source.                                      *)
(***************************************************************************)
Chr(s, i) == SubSeq(s, i, i)

\* The characters that occur in the model's strings, in code point order.
Alphabet == " +,-.0123456789:ABCDEFGHIJKLMNOPQRSTUVWXYZ_abcdefghijklmnopqrstuvwxyz"

Ord(c) == CHOOSE i \in 1..Len(Alphabet) : Chr(Alphabet, i) = c

UpperChars == "ABCDEFGHIJKLMNOPQRSTUVWXYZ"

LowerChars == "abcdefghijklmnopqrstuvwxyz"

Digits == "0123456789"

IsDigit(c) == \E i \in 1..Len(Digits) : Chr(Digits, i) = c

DigitVal(c) == (CHOOSE i \in 1..Len(Digits) : Chr(Digits, i) = c) - 1

LowerChr(c) ==
    IF \E i \in 1..Len(UpperChars) : Chr(UpperChars, i) = c
    THEN Chr(LowerChars, CHOOSE i \in 1..Len(UpperChars) : Chr(UpperChars, i) = c)
    ELSE c

RECURSIVE lower(_)
\* str.lower()
lower(s) == IF s = "" THEN "" ELSE LowerChr(Chr(s, 1)) \o lower(Tail(s))

RECURSIVE lstrip(_)
lstrip(s) == IF s # "" /\ Chr(s, 1) = " " THEN lstrip(Tail(s)) ELSE s

RECURSIVE rstrip(_)
rstrip(s) ==
    IF s # "" /\ Chr(s, Len(s)) = " " THEN rstrip(SubSeq(s, 1, Len(s) - 1)) ELSE s

\* str.strip()
strip(s) == rstrip(lstrip(s))

\* str.startswith(prefix)
startswith(s, prefix) ==
    Len(prefix) <= Len(s) /\ SubSeq(s, 1, Len(prefix)) = prefix

\* `c in s` for a one-character c
Contains(s, c) == \E i \in 1..Len(s) : Chr(s, i) = c

\* index of the first occurrence of the character c in s (c occurs in s)
Find(s, c) == CHOOSE i \in 1..Len(s) : Chr(s, i) = c /\ \A j \in 1..(i - 1) : Chr(s, j) # c

\* str.partition(c): <<before, separator, after>>, <<s, "", "">> without c
partition(s, c) ==
    IF Contains(s, c)
    THEN <<SubSeq(s, 1, Find(s, c) - 1), c, SubSeq(s, Find(s, c) + 1, Len(s))>>
    ELSE <<s, "", "">>

RECURSIVE split(_, _)
\* str.split(c): the list of the pieces between occurrences of c
split(s, c) ==
    IF Contains(s, c)
    THEN <<partition(s, c)[1]>> \o split(partition(s, c)[3], c)
    ELSE <<s>>

\* s[:n]
Prefix(s, n) == SubSeq(s, 1, IF n < Len(s) THEN n ELSE Len(s))

RECURSIVE StrLess(_, _)
\* a < b on str: lexicographic by code point
StrLess(a, b) ==
    IF b = "" THEN FALSE
    ELSE IF a = "" THEN TRUE
    ELSE IF Chr(a, 1) # Chr(b, 1) THEN Ord(Chr(a, 1)) < Ord(Chr(b, 1))
    ELSE StrLess(Tail(a), Tail(b))

RECURSIVE AllDigits(_)
AllDigits(s) == s = "" \/ (IsDigit(Chr(s, 1)) /\ AllDigits(Tail(s)))

RECURSIVE DigitsVal(_)
DigitsVal(s) ==
    IF s = "" THEN 0 ELSE 10 * DigitsVal(SubSeq(s, 1, Len(s) - 1)) + DigitVal(Chr(s, Len(s)))

RECURSIVE Pow10(_)
Pow10(n) == IF n = 0 THEN 1 ELSE 10 * Pow10(n - 1)

RECURSIVE IntToStr(_)
\* str(n) / f"{n}" for an int n >= 0
IntToStr(n) ==
    IF n < 10 THEN Chr(Digits, n + 1)
    ELSE IntToStr(n \div 10) \o Chr(Digits, (n % 10) + 1)

Unsigned(s) ==
    IF s # "" /\ (Chr(s, 1) = "-" \/ Chr(s, 1) = "+") THEN Tail(s) ELSE s

Sign(s) == IF s # "" /\ Chr(s, 1) = "-" THEN -1 ELSE 1

\* int(s) on a str: surrounding blanks, an optional sign, decimal digits.
\* [ok |-> FALSE] stands for ValueError.
int(s) ==
    LET t == strip(s)
        u == Unsigned(t)
    IN  IF u # "" /\ AllDigits(u)
        THEN [ok |-> TRUE, val |-> Sign(t) * DigitsVal(u)]
        ELSE [ok |-> FALSE, val |-> 0]

\* float(s) on a str of the forms D, D.F, .F, D. with an optional sign: the
\* value is num / den, kept exact.  [ok |-> FALSE] stands for ValueError.
\* (Exponent, inf and nan spellings are not among the inputs drawn.)
float(s) ==
    LET t == strip(s)
        u == Unsigned(t)
        p == partition(u, ".")
    IN  IF (p[1] # "" \/ p[3] # "") /\ AllDigits(p[1]) /\ AllDigits(p[3])
        THEN [ok |-> TRUE,
              num |-> Sign(t) * (DigitsVal(p[1]) * Pow10(Len(p[3])) + DigitsVal(p[3])),
              den |-> Pow10(Len(p[3]))]
        ELSE [ok |-> FALSE, num |-> 0, den |-> 1]

(***************************************************************************)
(* dict operations.                                                        *)
(***************************************************************************)
EmptyDict == [k \in {} |-> ""]

\* d[k] = v
DictSet(d, k, v) == [x \in (DOMAIN d) \cup {k} |-> IF x = k THEN v ELSE d[x]]

\* d.get(k): None when k is not a key
DictGet(d, k) == IF k \in DOMAIN d THEN Some(d[k]) ELSE None

Range(s) == {s[i] : i \in 1..Len(s)}

(***************************************************************************)
(* The upstream catalogue: the JSON objects TMDB may return in "results".  *)
(* A JSON null is None; a key may be missing altogether.                   *)
(***************************************************************************)
U1 == [id |-> Some(1), title |-> Some("Alpha"), overview |-> Some("a"),
       release_date |-> Some("2023-05-01"), original_language |-> Some("en"),
       vote_average |-> Some(70), vote_count |-> Some(100), popularity |-> Some(30),
       genre_ids |-> <<28, 12>>, poster_path |-> None]

U2 == [id |-> Some(2), title |-> Some("alpha"), overview |-> None,
       release_date |-> Some("2023-11-20"), original_language |-> Some("fr"),
       vote_average |-> Some(90), vote_count |-> Some(80), popularity |-> Some(10),
       genre_ids |-> <<28, 28>>, poster_path |-> None]

U3 == [id |-> Some(3), title |-> None, overview |-> None,
       release_date |-> None, original_language |-> Some("en"),
       vote_average |-> None, vote_count |-> Some(60), popularity |-> None,
       genre_ids |-> <<99>>, poster_path |-> None]

\* no "genre_ids" and no "overview" key
U4 == [id |-> Some(4), title |-> Some("Beta"),
       release_date |-> Some(""), original_language |-> None,
       vote_average |-> Some(0), vote_count |-> Some(50), popularity |-> Some(30),
       poster_path |-> Some("p")]

U5 == [id |-> Some(5), title |-> Some("beta"), overview |-> Some(""),
       release_date |-> Some("2022-05-01"), original_language |-> Some("en"),
       vote_average |-> Some(70), vote_count |-> Some(70), popularity |-> Some(20),
       genre_ids |-> <<28, 99>>, poster_path |-> None]

U6 == [id |-> Some(6), title |-> Some("Gamma"), overview |-> None,
       release_date |-> Some("20x0-01-01"), original_language |-> Some("en"),
       vote_average |-> Some(85), vote_count |-> Some(90), popularity |-> Some(40),
       genre_ids |-> <<18>>, poster_path |-> None]

U7 == [id |-> Some(7), title |-> Some("Delta"), overview |-> None,
       release_date |-> Some("1999-01-01"), original_language |-> Some("es"),
       vote_average |-> Some(90), vote_count |-> Some(55), popularity |-> Some(10),
       genre_ids |-> <<10749, 12>>, poster_path |-> None]

U8 == [id |-> Some(8), title |-> Some("DELTA"), overview |-> None,
       release_date |-> Some("2000-01-01"), original_language |-> Some("en"),
       vote_average |-> Some(0), vote_count |-> Some(51), popularity |-> Some(40),
       genre_ids |-> <<12, 28, 12>>, poster_path |-> None]

UpstreamCatalogue == <<U1, U2, U3, U4, U5, U6, U7, U8>>

\* How many objects of the catalogue the upstream draws from.
NumMovies == 6

\* Longest page handed to the filter and sort engines.
MaxLen == 3

\* Longest page handed to the aggregation engine (above top_n).
MaxAggLen == 6

(***************************************************************************)
(* services.py: the normalisation of one upstream object.                  *)
(***************************************************************************)
NormalizedKeys ==
    {"id", "title", "overview", "release_date", "original_language",
     "vote_average", "vote_count", "popularity", "genre_ids", "poster_path"}

\* movie.get(k) / movie.get("genre_ids", [])
Normalize(movie) ==
    [k \in NormalizedKeys |->
        IF k \in DOMAIN movie THEN movie[k]
        ELSE IF k = "genre_ids" THEN <<>> ELSE None]

NormalizeAll(results) == [i \in 1..Len(results) |-> Normalize(results[i])]

Movies == {Normalize(UpstreamCatalogue[i]) : i \in 1..NumMovies}

RECURSIVE InjSeqs(_, _)
\* The sequences of at most n pairwise different elements of S (ids are unique
\* within a page).
InjSeqs(S, n) ==
    IF n = 0 THEN {<<>>}
    ELSE LET prev == InjSeqs(S, n - 1)
         IN  prev \cup UNION {{Append(s, x) : x \in S \ Range(s)} :
                               s \in {t \in prev : Len(t) = n - 1}}

(***************************************************************************)
(* utils.py: the category catalogue.                                       *)
(***************************************************************************)
TMDB_GENRE_MAP ==
    (28 :> "Action") @@ (12 :> "Adventure") @@ (16 :> "Animation") @@
    (35 :> "Comedy") @@ (18 :> "Drama") @@ (27 :> "Horror") @@
    (10749 :> "Romance") @@ (878 :> "Science Fiction") @@ (53 :> "Thriller")

\* TMDB_GENRE_MAP.get(gid, default)
GenreMapGet(gid, default) ==
    IF gid \in DOMAIN TMDB_GENRE_MAP THEN TMDB_GENRE_MAP[gid] ELSE default

\* TMDB_GENRE_MAP.get(gid, f"Genre {gid}"): the name the serializer and the
\* summary emit
GenreLabel(gid) == GenreMapGet(gid, "Genre " \o IntToStr(gid))

(***************************************************************************)
(* utils.py: parse_filter_query.                                           *)
(***************************************************************************)
RECURSIVE ParseParts(_, _)
\* the loop over parts: a part with a colon sets filters[key] = value
ParseParts(parts, filters) ==
    IF parts = <<>> THEN filters
    ELSE LET part == Head(parts)
             kv == partition(part, ":")
         IN  IF Contains(part, ":")
             THEN ParseParts(Tail(parts),
                             DictSet(filters, lower(strip(kv[1])), strip(kv[3])))
             ELSE ParseParts(Tail(parts), filters)

\* filter_str is None or Some(str)
parse_filter_query(filter_str) ==
    IF ~TruthyStr(filter_str) THEN EmptyDict
    ELSE ParseParts(split(Val(filter_str), ","), EmptyDict)

(***************************************************************************)
(* utils.py: apply_filters.                                                *)
(***************************************************************************)
\* lines 41-44: FALSE is the `return False`
YearClause(movie, filters) ==
    LET year == DictGet(filters, "year")
    IN  IF TruthyStr(year) /\ TruthyStr(movie.release_date)
        THEN startswith(Val(movie.release_date), Val(year))
        ELSE TRUE

\* lines 47-49
LanguageClause(movie, filters) ==
    LET lang == DictGet(filters, "language")
    IN  ~(TruthyStr(lang) /\ movie.original_language # lang)

\* lines 52-59: a ValueError of float() is swallowed
MinRatingClause(movie, filters) ==
    LET min_rating == DictGet(filters, "min_rating")
    IN  IF TruthyStr(min_rating)
        THEN LET min_rating_val == float(Val(min_rating))
             IN  IF min_rating_val.ok
                 THEN ~(OrZero(movie.vote_average) * min_rating_val.den
                            < min_rating_val.num * 10)
                 ELSE TRUE
        ELSE TRUE

\* lines 62-67
GenreClause(movie, filters) ==
    LET genre_name == DictGet(filters, "genre")
    IN  IF TruthyStr(genre_name)
        THEN LET names == {lower(GenreMapGet(movie.genre_ids[i], "")) :
                              i \in 1..Len(movie.genre_ids)}
             IN  lower(Val(genre_name)) \in names
        ELSE TRUE

match(movie, filters) ==
    /\ YearClause(movie, filters)
    /\ LanguageClause(movie, filters)
    /\ MinRatingClause(movie, filters)
    /\ GenreClause(movie, filters)

apply_filters(movies, filters) ==
    IF DOMAIN filters = {} THEN movies
    ELSE SelectSeq(movies, LAMBDA m : match(m, filters))

(***************************************************************************)
(* utils.py: apply_sort.  The sort keys of lines 89, 91, 93 and 97.        *)
(***************************************************************************)
RatingKey(m) == OrZero(m.vote_average)

PopularityKey(m) == OrZero(m.popularity)

TitleKey(m) == lower(OrEmpty(m.title))

YearKey(m) == Prefix(OrEmpty(m.release_date), 4)

\* key(a) < key(b) for the key function of the given field
KeyLess(field, a, b) ==
    IF field = "rating" THEN RatingKey(a) < RatingKey(b)
    ELSE IF field = "popularity" THEN PopularityKey(a) < PopularityKey(b)
    ELSE IF field = "title" THEN StrLess(TitleKey(a), TitleKey(b))
    ELSE StrLess(YearKey(a), YearKey(b))

(***************************************************************************)
(* The built-in sorted(list, key=..., reverse=...): a new list, stable; with *)
(* reverse=True elements with equal keys still keep their original order.  *)
(***************************************************************************)
\* number of elements that sorted() places before the element at index i
SortRank(s, i, field, reverse) ==
    Cardinality({j \in 1..Len(s) :
        \/ IF reverse THEN KeyLess(field, s[i], s[j]) ELSE KeyLess(field, s[j], s[i])
        \/ (~KeyLess(field, s[i], s[j]) /\ ~KeyLess(field, s[j], s[i]) /\ j < i)})

sorted(s, field, reverse) ==
    [p \in 1..Len(s) |->
        s[CHOOSE i \in 1..Len(s) : SortRank(s, i, field, reverse) = p - 1]]

\* list(reversed(s))
Reversed(s) == [p \in 1..Len(s) |-> s[Len(s) + 1 - p]]

\* a descending sort written as a reversed ascending sort (not what the
\* source does): ties come out in reverse input order
apply_sort_reversed(movies, sort) ==
    IF ~TruthyStr(sort) THEN movies
    ELSE LET key == partition(Val(sort), "_")[1]
             direction == partition(Val(sort), "_")[3]
             rev(s) == IF direction = "desc" THEN Reversed(s) ELSE s
         IN  IF key = "rating" THEN rev(sorted(movies, "rating", FALSE))
             ELSE IF key = "popularity" THEN rev(sorted(movies, "popularity", FALSE))
             ELSE IF key = "title" THEN rev(sorted(movies, "title", FALSE))
             ELSE IF key = "year" THEN rev(sorted(movies, "year", FALSE))
             ELSE movies

\* an unrecognized field falling back to a default ordering (not what the
\* source does)
apply_sort_default_order(movies, sort) ==
    IF ~TruthyStr(sort) THEN movies
    ELSE LET key == partition(Val(sort), "_")[1]
             direction == partition(Val(sort), "_")[3]
             reverse == direction = "desc"
         IN  IF key = "rating" THEN sorted(movies, "rating", reverse)
             ELSE IF key = "popularity" THEN sorted(movies, "popularity", reverse)
             ELSE IF key = "title" THEN sorted(movies, "title", reverse)
             ELSE IF key = "year" THEN sorted(movies, "year", reverse)
             ELSE sorted(movies, "rating", reverse)

\* sort is None or Some(str)
apply_sort(movies, sort) ==
    IF ~TruthyStr(sort) THEN movies
    ELSE LET key == partition(Val(sort), "_")[1]
             direction == partition(Val(sort), "_")[3]
             reverse == direction = "desc"
         IN  IF key = "rating" THEN sorted(movies, "rating", reverse)
             ELSE IF key = "popularity" THEN sorted(movies, "popularity", reverse)
             ELSE IF key = "title" THEN sorted(movies, "title", reverse)
             ELSE IF key = "year" THEN sorted(movies, "year", reverse)
             ELSE movies

(***************************************************************************)
(* utils.py: aggregate_movies.                                             *)
(***************************************************************************)
\* line 120: the ratings of the movies that have one
Ratings(movies) ==
    LET rated == SelectSeq(movies, LAMBDA m : m.vote_average # None)
    IN  [i \in 1..Len(rated) |-> Val(rated[i].vote_average)]

\* the same pass with the count kept only for rated movies (not what the
\* source does)
GroupStepRatedOnly(acc, m, gid) ==
    LET seen == gid \in DOMAIN acc.counts
        old_bucket == IF gid \in DOMAIN acc.buckets THEN acc.buckets[gid] ELSE <<>>
    IN  IF m.vote_average = None THEN acc
        ELSE [order |-> IF seen THEN acc.order ELSE Append(acc.order, gid),
              counts |-> DictSet(acc.counts, gid,
                                 (IF seen THEN acc.counts[gid] ELSE 0) + 1),
              buckets |-> DictSet(acc.buckets, gid,
                                  Append(old_bucket, Val(m.vote_average)))]

\* one pass of the inner loop body, lines 130-132, for movie m and id gid.
\* acc.order is the insertion order of the keys of genre_counts.
GroupStep(acc, m, gid) ==
    LET seen == gid \in DOMAIN acc.counts
        old_bucket == IF gid \in DOMAIN acc.buckets THEN acc.buckets[gid] ELSE <<>>
    IN  [order |-> IF seen THEN acc.order ELSE Append(acc.order, gid),
         counts |-> DictSet(acc.counts, gid, (IF seen THEN acc.counts[gid] ELSE 0) + 1),
         buckets |-> IF m.vote_average # None
                     THEN DictSet(acc.buckets, gid,
                                  Append(old_bucket, Val(m.vote_average)))
                     ELSE acc.buckets]

RECURSIVE GroupGenreIds(_, _, _)
\* line 129: for gid in m.get("genre_ids", [])
GroupGenreIds(acc, m, gids) ==
    IF gids = <<>> THEN acc
    ELSE GroupGenreIds(GroupStep(acc, m, Head(gids)), m, Tail(gids))

RECURSIVE GroupMovies(_, _)
\* line 128: for m in movies
GroupMovies(acc, movies) ==
    IF movies = <<>> THEN acc
    ELSE GroupMovies(GroupGenreIds(acc, Head(movies), Head(movies).genre_ids),
                     Tail(movies))

\* lines 134-145.  avg_rating is round(mean(bucket), 2), 0 for an empty
\* bucket: the entry carries the bucket the average is taken over.
genres_summary(movies) ==
    LET acc == GroupMovies([order |-> <<>>, counts |-> EmptyDict, buckets |-> EmptyDict],
                           movies)
    IN  [i \in 1..Len(acc.order) |->
            LET gid == acc.order[i]
            IN  [genre_id |-> gid,
                 genre_name |-> GenreLabel(gid),
                 count |-> acc.counts[gid],
                 bucket |-> IF gid \in DOMAIN acc.buckets THEN acc.buckets[gid]
                            ELSE <<>>]]

\* lines 152-158: the condensed view of one movie
Condensed(m) ==
    [id |-> m.id, title |-> m.title, vote_average |-> m.vote_average,
     vote_count |-> m.vote_count, release_date |-> m.release_date]

\* s[:n]
Take(s, n) == SubSeq(s, 1, IF n < Len(s) THEN n ELSE Len(s))

\* the top list cut one short (not what the source does)
top_rated_short(movies, top_n) ==
    LET movies_by_rating == sorted(movies, "rating", TRUE)
        cut == Take(movies_by_rating, top_n - 1)
    IN  [i \in 1..Len(cut) |-> Condensed(cut[i])]

\* lines 147-160
top_rated(movies, top_n) ==
    LET movies_by_rating == sorted(movies, "rating", TRUE)
        cut == Take(movies_by_rating, top_n)
    IN  [i \in 1..Len(cut) |-> Condensed(cut[i])]

\* overall_avg_rating is round(mean(ratings), 2), 0 without ratings: the
\* summary carries the ratings the average is taken over.
aggregate_movies(movies, top_n) ==
    IF movies = <<>>
    THEN [total_movies |-> 0, ratings |-> <<>>, genres |-> <<>>, top_rated |-> <<>>]
    ELSE [total_movies |-> Len(movies),
          ratings |-> Ratings(movies),
          genres |-> genres_summary(movies),
          top_rated |-> top_rated(movies, top_n)]

(***************************************************************************)
(* serializers.py: MovieSerializer; a None field is rendered as None.      *)
(***************************************************************************)
get_genres(obj) == [i \in 1..Len(obj.genre_ids) |-> GenreLabel(obj.genre_ids[i])]

MovieSerializer(obj) ==
    [k \in NormalizedKeys \cup {"genres"} |->
        IF k = "genres" THEN get_genres(obj) ELSE obj[k]]

SerializeMany(page_obj) == [i \in 1..Len(page_obj) |-> MovieSerializer(page_obj[i])]

(***************************************************************************)
(* services.py: fetch_movies_from_tmdb behind @lru_cache(maxsize=64).      *)
(*                                                                         *)
(* env is what the world answers during one call:                          *)
(*   env.api_key   whether TMDB_API_KEY is configured                      *)
(*   env.reply     what requests.get does: it raises (timeout, connection  *)
(*                 error) or returns a response with a status and a body   *)
(***************************************************************************)
LRU_MAXSIZE == 64

HTTP_200 == 200

HTTP_400_BAD_REQUEST == 400

HTTP_502_BAD_GATEWAY == 502

\* lines 27-62, the undecorated function: what it raises or returns, and
\* whether it sent the HTTP request
fetch_body(page, env) ==
    IF ~env.api_key
    THEN [raised |-> "TMDBApiError", message |-> "TMDB_API_KEY is not configured",
          value |-> <<>>, called |-> FALSE, status_code |-> 0]
    ELSE IF env.reply.kind = "exception"
    THEN [raised |-> "RequestException", message |-> "",
          value |-> <<>>, called |-> TRUE, status_code |-> 0]
    ELSE IF env.reply.status_code # HTTP_200
    THEN [raised |-> "TMDBApiError",
          message |-> "TMDB API error: " \o IntToStr(env.reply.status_code)
                          \o " " \o env.reply.text,
          value |-> <<>>, called |-> TRUE, status_code |-> env.reply.status_code]
    ELSE [raised |-> "", message |-> "",
          value |-> NormalizeAll(IF env.reply.has_results THEN env.reply.results
                                 ELSE <<>>),
          called |-> TRUE, status_code |-> env.reply.status_code]

\* The cache is the list of its entries, least recently used first.
CacheHas(c, page) == \E i \in 1..Len(c) : c[i].key = page

CacheGet(c, page) == c[CHOOSE i \in 1..Len(c) : c[i].key = page].value

CacheKeys(c) == {c[i].key : i \in 1..Len(c)}

CacheWithout(c, page) == SelectSeq(c, LAMBDA e : e.key # page)

\* a wrapper that stores what it has when the call raises TMDBApiError (not
\* what lru_cache does)
fetch_movies_from_tmdb_caching_errors(c, page, env) ==
    IF CacheHas(c, page)
    THEN [raised |-> "", message |-> "", value |-> CacheGet(c, page),
          called |-> FALSE, status_code |-> 0,
          cache |-> Append(CacheWithout(c, page),
                           [key |-> page, value |-> CacheGet(c, page)])]
    ELSE LET r == fetch_body(page, env)
             room == IF Len(c) >= LRU_MAXSIZE THEN Tail(c) ELSE c
         IN  [raised |-> r.raised, message |-> r.message, value |-> r.value,
              called |-> r.called, status_code |-> r.status_code,
              cache |-> IF r.raised \in {"", "TMDBApiError"}
                        THEN Append(room, [key |-> page, value |-> r.value])
                        ELSE c]

\* lines 21-22: a hit returns the stored list and makes the entry the most
\* recent; a miss runs the function and stores its result only when it
\* returns, evicting the least recent entry of a full cache
fetch_movies_from_tmdb(c, page, env) ==
    IF CacheHas(c, page)
    THEN [raised |-> "", message |-> "", value |-> CacheGet(c, page),
          called |-> FALSE, status_code |-> 0,
          cache |-> Append(CacheWithout(c, page),
                           [key |-> page, value |-> CacheGet(c, page)])]
    ELSE LET r == fetch_body(page, env)
             room == IF Len(c) >= LRU_MAXSIZE THEN Tail(c) ELSE c
         IN  [raised |-> r.raised, message |-> r.message, value |-> r.value,
              called |-> r.called, status_code |-> r.status_code,
              cache |-> IF r.raised = ""
                        THEN Append(room, [key |-> page, value |-> r.value])
                        ELSE c]

(***************************************************************************)
(* views.py.                                                               *)
(***************************************************************************)
DEFAULT_PAGE == 1

DEFAULT_LIMIT == 20

TOP_N == 5

\* int(request.GET.get(name, default)): the parameter is None when absent
IntParam(param, default) ==
    IF param = None THEN [ok |-> TRUE, val |-> default] ELSE int(Val(param))

\* lines 54-58: Paginator(object_list, per_page).page(1) of django.  The
\* number of pages is ceil(max(1, count) / per_page), which divides by zero
\* for per_page = 0; for per_page > 0 page 1 is object_list[0:per_page].
\* (Requests with a negative limit are not drawn.)
PaginatorPage1(object_list, per_page) ==
    IF per_page = 0
    THEN [raised |-> "ZeroDivisionError", page_obj |-> <<>>]
    ELSE [raised |-> "", page_obj |-> Take(object_list, per_page)]

NoFetch ==
    [attempted |-> FALSE, page |-> 0, called |-> FALSE, status_code |-> 0,
     raw |-> None]

FetchInfo(page, f) ==
    [attempted |-> TRUE, page |-> page, called |-> f.called,
     status_code |-> f.status_code,
     raw |-> IF f.raised = "" THEN Some(f.value) ELSE None]

ClientError(detail) ==
    [outcome |-> "client_error", status |-> HTTP_400_BAD_REQUEST,
     body |-> [detail |-> detail]]

GatewayError(detail) ==
    [outcome |-> "gateway_error", status |-> HTTP_502_BAD_GATEWAY,
     body |-> [detail |-> detail]]

\* an exception no handler of the view catches: the request aborts
Unhandled(exc) ==
    [outcome |-> "unhandled_exception", status |-> 500, body |-> [exception |-> exc]]

Success(body) == [outcome |-> "success", status |-> HTTP_200, body |-> body]

\* MoviesListView.get, lines 21-69: the response, the steps run in order,
\* the fetch and the cache afterwards
MoviesListView_get(c, request, env) ==
    LET page == IntParam(request.page, DEFAULT_PAGE)
        limit == IntParam(request.limit, DEFAULT_LIMIT)
        f == fetch_movies_from_tmdb(c, page.val, env)
        filters == parse_filter_query(request.filter)
        filtered == apply_filters(f.value, filters)
        sorted_movies == apply_sort(filtered, request.sort)
        pg == PaginatorPage1(sorted_movies, limit.val)
    IN  IF ~page.ok
        THEN [resp |-> ClientError("Invalid 'page' parameter"),
              steps |-> <<"int_page">>, fetch |-> NoFetch, cache |-> c]
        ELSE IF ~limit.ok
        THEN [resp |-> ClientError("Invalid 'limit' parameter"),
              steps |-> <<"int_page", "int_limit">>, fetch |-> NoFetch, cache |-> c]
        ELSE IF f.raised = "TMDBApiError"
        THEN [resp |-> GatewayError(f.message),
              steps |-> <<"int_page", "int_limit", "fetch">>,
              fetch |-> FetchInfo(page.val, f), cache |-> f.cache]
        ELSE IF f.raised # ""
        THEN [resp |-> Unhandled(f.raised),
              steps |-> <<"int_page", "int_limit", "fetch">>,
              fetch |-> FetchInfo(page.val, f), cache |-> f.cache]
        ELSE IF pg.raised # ""
        THEN [resp |-> Unhandled(pg.raised),
              steps |-> <<"int_page", "int_limit", "fetch", "parse_filter_query",
                          "apply_filters", "apply_sort", "paginate">>,
              fetch |-> FetchInfo(page.val, f), cache |-> f.cache]
        ELSE [resp |-> Success([page |-> page.val, limit |-> limit.val,
                                total_items |-> Len(sorted_movies),
                                results |-> SerializeMany(pg.page_obj)]),
              steps |-> <<"int_page", "int_limit", "fetch", "parse_filter_query",
                          "apply_filters", "apply_sort", "paginate", "serialize">>,
              fetch |-> FetchInfo(page.val, f), cache |-> f.cache]

\* MoviesSummaryView.get, lines 83-110
MoviesSummaryView_get(c, request, env) ==
    LET page == IntParam(request.page, DEFAULT_PAGE)
        f == fetch_movies_from_tmdb(c, page.val, env)
        filters == parse_filter_query(request.filter)
        filtered == apply_filters(f.value, filters)
        sorted_movies == apply_sort(filtered, request.sort)
    IN  IF ~page.ok
        THEN [resp |-> ClientError("Invalid 'page' parameter"),
              steps |-> <<"int_page">>, fetch |-> NoFetch, cache |-> c]
        ELSE IF f.raised = "TMDBApiError"
        THEN [resp |-> GatewayError(f.message),
              steps |-> <<"int_page", "fetch">>,
              fetch |-> FetchInfo(page.val, f), cache |-> f.cache]
        ELSE IF f.raised # ""
        THEN [resp |-> Unhandled(f.raised),
              steps |-> <<"int_page", "fetch">>,
              fetch |-> FetchInfo(page.val, f), cache |-> f.cache]
        ELSE [resp |-> Success(aggregate_movies(sorted_movies, TOP_N)),
              steps |-> <<"int_page", "fetch", "parse_filter_query",
                          "apply_filters", "apply_sort", "aggregate_movies",
                          "serialize">>,
              fetch |-> FetchInfo(page.val, f), cache |-> f.cache]

(***************************************************************************)
(* State.                                                                  *)
(*   cache   the entries of the lru_cache of fetch_movies_from_tmdb        *)
(*   req     the last request: its endpoint and its query parameters       *)
(*   resp    the response to it                                            *)
(*   steps   the steps of the handler that ran for it, in order            *)
(*   fetch   what the provider call of that request did                    *)
(*   movies  the list handed to an engine of utils.py, as it is after the  *)
(*           call                                                          *)
(*   call    the engine called last and its arguments                      *)
(*   out     what that call returned                                       *)
(***************************************************************************)
VARIABLES cache, req, resp, steps, fetch, movies, call, out

vars == <<cache, req, resp, steps, fetch, movies, call, out>>

serverVars == <<cache, req, resp, steps, fetch>>

engineVars == <<movies, call, out>>

NoReq == [kind |-> "none", page |-> None, limit |-> None, sort |-> None, filter |-> None]

NoResp == [outcome |-> "none", status |-> 0, body |-> [detail |-> ""]]

NoCall == [fn |-> "none", filter_str |-> None, filters |-> EmptyDict, sort |-> None]

ServerIdle ==
    cache = <<>> /\ req = NoReq /\ resp = NoResp /\ steps = <<>> /\ fetch = NoFetch

(***************************************************************************)
(* Inputs.                                                                 *)
(***************************************************************************)
PageParams == {None, Some("2"), Some("abc")}

LimitParams == {None, Some("2"), Some("0"), Some("x")}

\* the sort and filter parameters of a request
QueryParams ==
    {[sort |-> None, filter |-> None],
     [sort |-> Some("rating_desc"), filter |-> Some("year:2023")]}

\* the "results" of an upstream answer
PageBodies == {<<U1, U2, U3>>, <<U5, U4>>}

Replies ==
    {[kind |-> "exception", status_code |-> 0, text |-> "", has_results |-> FALSE,
      results |-> <<>>],
     [kind |-> "response", status_code |-> 404, text |-> "Not Found",
      has_results |-> FALSE, results |-> <<>>],
     [kind |-> "response", status_code |-> HTTP_200, text |-> "",
      has_results |-> FALSE, results |-> <<>>]}
    \cup {[kind |-> "response", status_code |-> HTTP_200, text |-> "",
           has_results |-> TRUE, results |-> b] : b \in PageBodies}

Envs ==
    {[api_key |-> TRUE, reply |-> r] : r \in Replies}
    \cup {[api_key |-> FALSE,
           reply |-> [kind |-> "exception", status_code |-> 0, text |-> "",
                      has_results |-> FALSE, results |-> <<>>]]}

FilterStrs ==
    {None, Some(""), Some("nocolon"), Some("foo:bar"),
     Some("year:2023"), Some("year:"), Some(" Year : 2022 "),
     Some("year:1999,year:2023"),
     Some("language:en"), Some("language:"), Some("language:fr,min_rating:7"),
     Some("min_rating:7.5"), Some("min_rating:abc"),
     Some("genre:Action"), Some("genre:action"), Some("genre:Genre 99"),
     Some("genre:"), Some("year:2023,genre:Action"),
     Some("language:en,genre:Genre 99")}

SortTokens ==
    {None, Some(""), Some("foo_desc"), Some("_desc"), Some("ratings"),
     Some("rating_desc"), Some("rating_asc"), Some("rating"),
     Some("popularity_desc"), Some("popularity_asc"),
     Some("title_desc"), Some("title_asc"),
     Some("year_desc"), Some("year_asc")}

(***************************************************************************)
(* The endpoints (urls.py): one action per request.                        *)
(***************************************************************************)
ListRequest ==
    \E page \in PageParams, limit \in LimitParams, q \in QueryParams, env \in Envs :
        LET request == [kind |-> "list", page |-> page, limit |-> limit,
                        sort |-> q.sort, filter |-> q.filter]
        IN  \E r \in {MoviesListView_get(cache, request, env)} :
            /\ req' = request
            /\ resp' = r.resp
            /\ steps' = r.steps
            /\ fetch' = r.fetch
            /\ cache' = r.cache
            /\ UNCHANGED engineVars

SummaryRequest ==
    \E page \in PageParams, q \in QueryParams, env \in Envs :
        LET request == [kind |-> "summary", page |-> page, limit |-> None,
                        sort |-> q.sort, filter |-> q.filter]
        IN  \E r \in {MoviesSummaryView_get(cache, request, env)} :
            /\ req' = request
            /\ resp' = r.resp
            /\ steps' = r.steps
            /\ fetch' = r.fetch
            /\ cache' = r.cache
            /\ UNCHANGED engineVars

Init == ServerIdle /\ movies = <<>> /\ call = NoCall /\ out = <<>>

Next == ListRequest \/ SummaryRequest

Spec == Init /\ [][Next]_vars

(***************************************************************************)
(* The engines of utils.py, each applied once to a page.                   *)
(***************************************************************************)
ApplyFilters ==
    \E filter_str \in FilterStrs :
        /\ call = NoCall
        /\ \E filters \in {parse_filter_query(filter_str)} :
            /\ call' = [fn |-> "apply_filters", filter_str |-> filter_str,
                        filters |-> filters, sort |-> None]
            /\ out' = apply_filters(movies, filters)
        /\ movies' = movies
        /\ UNCHANGED serverVars

ApplySort ==
    \E sort \in SortTokens :
        /\ call = NoCall
        /\ call' = [fn |-> "apply_sort", filter_str |-> None,
                    filters |-> EmptyDict, sort |-> sort]
        /\ out' = apply_sort(movies, sort)
        /\ movies' = movies
        /\ UNCHANGED serverVars

Aggregate ==
    /\ call = NoCall
    /\ call' = [fn |-> "aggregate_movies", filter_str |-> None,
                filters |-> EmptyDict, sort |-> None]
    /\ out' = aggregate_movies(movies, TOP_N)
    /\ movies' = movies
    /\ UNCHANGED serverVars

InitEngines ==
    ServerIdle /\ movies \in InjSeqs(Movies, MaxLen) /\ call = NoCall /\ out = <<>>

NextEngines == ApplyFilters \/ ApplySort \/ Aggregate

SpecEngines == InitEngines /\ [][NextEngines]_vars

InitAggregate ==
    ServerIdle /\ movies \in InjSeqs(Movies, MaxAggLen) /\ call = NoCall /\ out = <<>>

NextAggregate == Aggregate

SpecAggregate == InitAggregate /\ [][NextAggregate]_vars

(***************************************************************************)
(* Properties.  Shared vocabulary first.                                   *)
(***************************************************************************)
\* the record m is among the records returned
InOut(m) == \E i \in 1..Len(out) : out[i] = m

\* the index in the input list of the record with the id of x
PosInMovies(x) == CHOOSE i \in 1..Len(movies) : movies[i].id = x.id

Min(a, b) == IF a < b THEN a ELSE b

RecognizedFields == {"rating", "popularity", "title", "year"}

SortField == partition(Val(call.sort), "_")[1]

SortDirection == partition(Val(call.sort), "_")[3]

\* the year clause as stated: the release date is there and starts with the value
StatedYearClause(m, filters) ==
    "year" \in DOMAIN filters =>
        (TruthyStr(m.release_date) /\ startswith(Val(m.release_date), filters["year"]))

\* the genre clause as stated: the value is, ignoring case, the catalogue name
\* of one of the ids, "Genre {id}" for an id outside the map
StatedGenreClause(m, filters) ==
    "genre" \in DOMAIN filters =>
        \E i \in 1..Len(m.genre_ids) :
            lower(filters["genre"]) = lower(GenreLabel(m.genre_ids[i]))

\* C1: with a non-empty `year` value Y every record of the result has a
\* release date starting with Y (so a record without a release date is never
\* in the result), and a record the year clause excludes has no release date
\* or one that does not start with Y.
C1_YearFilter ==
    (call.fn = "apply_filters" /\ TruthyStr(DictGet(call.filters, "year"))) =>
        /\ \A i \in 1..Len(out) :
              /\ TruthyStr(out[i].release_date)
              /\ startswith(Val(out[i].release_date), call.filters["year"])
        /\ \A i \in 1..Len(movies) :
              (/\ ~InOut(movies[i])
               /\ LanguageClause(movies[i], call.filters)
               /\ MinRatingClause(movies[i], call.filters)
               /\ GenreClause(movies[i], call.filters))
              => ~(/\ TruthyStr(movies[i].release_date)
                   /\ startswith(Val(movies[i].release_date), call.filters["year"]))

\* C2: with a `genre` value g a record passes the genre clause (it is in the
\* result whenever the other clauses let it through) iff g is, ignoring
\* case, the catalogue name of one of its ids, "Genre {id}" for an unknown id.
\* Stated here for the non-empty values g, for which the clause is evaluated.
C2_GenreFilter ==
    (call.fn = "apply_filters" /\ TruthyStr(DictGet(call.filters, "genre"))) =>
        \A i \in 1..Len(movies) :
            (/\ YearClause(movies[i], call.filters)
             /\ LanguageClause(movies[i], call.filters)
             /\ MinRatingClause(movies[i], call.filters))
            => (InOut(movies[i]) <=> StatedGenreClause(movies[i], call.filters))

\* C8: with a `language` value v every record of the result has
\* original_language equal to v, and every record with that language that
\* satisfies the other present clauses is in the result.
\* Stated here for the non-empty values v, for which the clause is evaluated.
C8_LanguageFilter ==
    (call.fn = "apply_filters" /\ TruthyStr(DictGet(call.filters, "language"))) =>
        /\ \A i \in 1..Len(out) :
              out[i].original_language = Some(call.filters["language"])
        /\ \A i \in 1..Len(movies) :
              (/\ movies[i].original_language = Some(call.filters["language"])
               /\ StatedYearClause(movies[i], call.filters)
               /\ MinRatingClause(movies[i], call.filters)
               /\ StatedGenreClause(movies[i], call.filters))
              => InOut(movies[i])

\* the ids that occur in some record of the input
OccurringIds == UNION {Range(movies[i].genre_ids) : i \in 1..Len(movies)}

\* the genres list has exactly one entry per occurring id
OneEntryPerId ==
    /\ {out.genres[k].genre_id : k \in 1..Len(out.genres)} = OccurringIds
    /\ Len(out.genres) = Cardinality(OccurringIds)

\* C3 as stated: for a non-empty input the genres list has exactly one entry
\* per occurring category id, and its count is the number of records whose
\* category_ids contain the id, rated or not.
C3_CountIsRecords ==
    (call.fn = "aggregate_movies" /\ movies # <<>>) =>
        /\ OneEntryPerId
        /\ \A k \in 1..Len(out.genres) :
              out.genres[k].count =
                  Cardinality({i \in 1..Len(movies) :
                      out.genres[k].genre_id \in Range(movies[i].genre_ids)})

\* the places <<i, j>> of the input: the j-th category id of the i-th record
IdOccurrences ==
    UNION {{<<i, j>> : j \in 1..Len(movies[i].genre_ids)} : i \in 1..Len(movies)}

\* C3 amended: for a non-empty input the genres list has exactly one entry
\* per occurring category id, and its count is the number of occurrences of
\* the id in the category_ids of the records, rated or not (the number of
\* records containing it when no record lists an id twice).
C3_CountIsOccurrences ==
    (call.fn = "aggregate_movies" /\ movies # <<>>) =>
        /\ OneEntryPerId
        /\ \A k \in 1..Len(out.genres) :
              out.genres[k].count =
                  Cardinality({ij \in IdOccurrences :
                      movies[ij[1]].genre_ids[ij[2]] = out.genres[k].genre_id})

\* C3 witness: a summary in which a record without a rating is counted and
\* a record lists an id twice.
C3_Witness ==
    /\ call.fn = "aggregate_movies"
    /\ movies # <<>>
    /\ \E k \in 1..Len(out.genres) : out.genres[k].count > Len(out.genres[k].bucket)
    /\ \E i \in 1..Len(movies) :
          Len(movies[i].genre_ids) > Cardinality(Range(movies[i].genre_ids))

\* C6: top_rated has min(5, |R|) entries, in non-increasing order of rating
\* (absent counted as 0), entries with equal rating in their order in R, and
\* no record left out has a rating strictly greater than one in the list.
C6_TopRated ==
    call.fn = "aggregate_movies" =>
        LET top == out.top_rated
        IN  /\ Len(top) = Min(TOP_N, Len(movies))
            /\ \A i \in 1..Len(top) : top[i] = Condensed(movies[PosInMovies(top[i])])
            /\ \A i, j \in 1..Len(top) :
                  i < j =>
                      /\ OrZero(top[i].vote_average) >= OrZero(top[j].vote_average)
                      /\ PosInMovies(top[i]) # PosInMovies(top[j])
                      /\ OrZero(top[i].vote_average) = OrZero(top[j].vote_average)
                            => PosInMovies(top[i]) < PosInMovies(top[j])
            /\ \A m \in Range(movies) :
                  (\A i \in 1..Len(top) : top[i].id # m.id)
                  => \A i \in 1..Len(top) :
                        ~(OrZero(m.vote_average) > OrZero(top[i].vote_average))

\* C6 witness: a summary of more than five records whose top list holds two
\* entries of equal rating.
C6_Witness ==
    /\ call.fn = "aggregate_movies"
    /\ Len(movies) > TOP_N
    /\ Len(out.top_rated) = TOP_N
    /\ \E i, j \in 1..Len(out.top_rated) :
          /\ i < j
          /\ OrZero(out.top_rated[i].vote_average) = OrZero(out.top_rated[j].vote_average)

\* C7: for a recognized field and direction asc or desc, apply_sort returns
\* a permutation of R ordered by the field's key in that direction, records
\* of equal key in their order in R.
C7_StableSort ==
    (/\ call.fn = "apply_sort"
     /\ TruthyStr(call.sort)
     /\ SortField \in RecognizedFields
     /\ SortDirection \in {"asc", "desc"}) =>
        /\ Len(out) = Len(movies)
        /\ Range(out) = Range(movies)
        /\ \A i, j \in 1..Len(out) :
              i < j =>
                  /\ IF SortDirection = "desc"
                     THEN ~KeyLess(SortField, out[i], out[j])
                     ELSE ~KeyLess(SortField, out[j], out[i])
                  /\ (~KeyLess(SortField, out[i], out[j])
                      /\ ~KeyLess(SortField, out[j], out[i]))
                        => PosInMovies(out[i]) < PosInMovies(out[j])

\* C7 witness: a descending sort that reorders the input and returns two
\* records of equal key.
C7_Witness ==
    /\ call.fn = "apply_sort"
    /\ TruthyStr(call.sort)
    /\ SortField \in RecognizedFields
    /\ SortDirection = "desc"
    /\ out # movies
    /\ \E i, j \in 1..Len(out) :
          /\ i < j
          /\ ~KeyLess(SortField, out[i], out[j])
          /\ ~KeyLess(SortField, out[j], out[i])

\* C9: apply_filters with an empty spec and apply_sort with an empty, absent
\* or unrecognized token return R in the same order, and no engine changes R.
C9_Identity ==
    [][/\ movies' = movies
       /\ (call'.fn = "apply_filters" /\ DOMAIN call'.filters = {}) => out' = movies
       /\ (/\ call'.fn = "apply_sort"
           /\ (\/ ~TruthyStr(call'.sort)
               \/ partition(Val(call'.sort), "_")[1] \notin RecognizedFields))
          => out' = movies]_vars

\* C9 witness: a sort with an unrecognized field on a list that is not in
\* descending order of rating, returned as it was.
C9_Witness ==
    /\ call.fn = "apply_sort"
    /\ call.sort = Some("foo_desc")
    /\ out = movies
    /\ \E i, j \in 1..Len(movies) :
          i < j /\ RatingKey(movies[i]) < RatingKey(movies[j])

(***************************************************************************)
(* Properties of the endpoints.                                            *)
(***************************************************************************)
TransformSteps ==
    {"parse_filter_query", "apply_filters", "apply_sort", "paginate",
     "aggregate_movies", "serialize"}

\* C4: a listing request whose page and limit parse and whose fetch succeeds
\* is answered with total_items the number of records left by the filter and
\* results the first `limit` records of the filtered, sorted list.
C4_Listing ==
    (/\ req.kind = "list"
     /\ IntParam(req.page, DEFAULT_PAGE).ok
     /\ IntParam(req.limit, DEFAULT_LIMIT).ok
     /\ fetch.raw # None) =>
        LET filtered == apply_filters(Val(fetch.raw), parse_filter_query(req.filter))
            sorted_movies == apply_sort(filtered, req.sort)
        IN  /\ resp.outcome = "success"
            /\ resp.body.total_items = Len(filtered)
            /\ resp.body.results =
                  SerializeMany(Take(sorted_movies, IntParam(req.limit, DEFAULT_LIMIT).val))

\* the HTTP request of the provider call, if one was sent, was answered
UpstreamAnswered == fetch.called => fetch.status_code # 0

\* C5: every request ends as a client error issued before the provider is
\* called, as a gateway error issued before any transformation step, or as
\* the complete success payload; none aborts.
\* Stated here for the requests during which the upstream answered.
C5_ThreeOutcomes ==
    (req.kind # "none" /\ UpstreamAnswered) =>
        \/ /\ resp.outcome = "client_error"
           /\ ~fetch.attempted
           /\ "fetch" \notin Range(steps)
        \/ /\ resp.outcome = "gateway_error"
           /\ Range(steps) \cap TransformSteps = {}
        \/ /\ resp.outcome = "success"
           /\ steps[Len(steps)] = "serialize"

\* C10: the cache gains an entry for page p only by a fetch of p answered
\* with status 200; a fetch that raises TMDBApiError leaves the cache as it
\* was, so a later request for p calls upstream again; a request for a cached
\* page makes no upstream call and sees the records stored earlier.
C10_CacheOnlySuccess ==
    [][/\ \A p \in CacheKeys(cache') \ CacheKeys(cache) :
             /\ fetch'.attempted /\ fetch'.page = p
             /\ fetch'.called /\ fetch'.status_code = HTTP_200
             /\ fetch'.raw = Some(CacheGet(cache', p))
       /\ \A p \in CacheKeys(cache') \cap CacheKeys(cache) :
             CacheGet(cache', p) = CacheGet(cache, p)
       /\ resp'.outcome = "gateway_error" => cache' = cache
       /\ (fetch'.attempted /\ CacheHas(cache, fetch'.page)) =>
             /\ ~fetch'.called
             /\ fetch'.raw = Some(CacheGet(cache, fetch'.page))
       /\ (fetch'.attempted /\ ~CacheHas(cache, fetch'.page)) =>
             \/ fetch'.called
             \/ /\ resp'.outcome = "gateway_error"
                /\ resp'.body.detail = "TMDB_API_KEY is not configured"]_vars

\* C10 witness: a request served from the cache while another page is cached
\* too.
C10_Witness ==
    /\ fetch.attempted
    /\ ~fetch.called
    /\ fetch.raw # None
    /\ Len(cache) = 2
    /\ resp.outcome = "success"

====
